---- MODULE Spec2Model ----
(***************************************************************************)
(* State-machine model of ElasticsearchDocumentStore                       *)
(* (integrations/elasticsearch/.../document_store.py): the lazy            *)
(* initialisation, the bulk write and delete paths in their synchronous    *)
(* and asynchronous variants, the validation of the public data            *)
(* operations and the paginated search loop.                               *)
(*                                                                         *)
(* One store instance is driven by one sequential caller.  Every public    *)
(* operation is one action, except the operations that search: their       *)
(* pagination loop takes one step per page fetch.  An operation leaves its *)
(* outcome in `last`; the caller then takes it (Return) and calls again.   *)
(* The Elasticsearch backend is the environment: its per-call failures     *)
(* and its page responses are inputs drawn with \E.                        *)
(***************************************************************************)
EXTENDS Integers, Sequences, FiniteSets, TLC

\* ---------------------------------------------------------------- bounds
MaxId == 2
MaxLen == 2
MaxTotal == 3
MaxTopK == 2
DefaultSize == 2
MaxFetch == 3
NThreads == 2
MaxScore == 2

\* ------------------------------------------------------ program constants
DOC_ALREADY_EXISTS == 409

\* ----------------------------------------------------------- value spaces
None == -1
NoDoc == "absent"
Ids == 1..MaxId
Contents == {"a", "b"}
Policies == {"FAIL", "SKIP", "OVERWRITE", "NONE"}
Modes == {"sync", "async"}

\* An element of a write batch: a Document, with or without a sparse
\* embedding, or an object of another type (a str, a dict: it has no
\* to_dict()).
NonDocument == [kind |-> "NonDocument", id |-> 0, content |-> "a",
                sparse_embedding |-> "unset"]
Items == [kind : {"Document"}, id : Ids, content : Contents,
          sparse_embedding : {"unset"}]
           \cup [kind : {"Document"}, id : Ids, content : {"a"},
                 sparse_embedding : {"set"}]
           \cup {NonDocument}
Batches == UNION {[1..n -> Items] : n \in 0..MaxLen}
IdLists == UNION {[1..n -> Ids] : n \in 0..MaxLen}

\* The root of a filter: absent/empty, or a mapping that may carry the keys
\* "operator" and "conditions".
Filters == [empty : {TRUE}, operator : {FALSE}, conditions : {FALSE}]
             \cup [empty : {FALSE}, operator : BOOLEAN, conditions : BOOLEAN]

\* Where the environment makes the one-time setup fail, if anywhere.
InitFailures == {"none", "info", "exists", "create"}

\* The callers of the concurrent specification.
Threads == 1..NThreads

\* The search hits the backend may return.  A hit's "_source" is the record
\* that was indexed: it may or may not hold a key "metadata" (a mapping);
\* the hit may or may not carry a "highlight".
Scores == 0..MaxScore
Fragments == {"x", "y"}
Metadatas == {[lang |-> "en"], [lang |-> "en", highlighted |-> "old"]}
Sources == [id : Ids, content : Contents]
             \cup [id : Ids, content : Contents, metadata : Metadatas]
Hits == [_source : Sources, _score : Scores]
          \cup [_source : Sources, _score : Scores, highlight : Fragments]
NoHit == [none |-> TRUE]

VARIABLES
    initialized,    \* self._initialized
    client,         \* self._client is not None
    async_client,   \* self._async_client is not None
    kwargs,         \* keys of self._kwargs
    indexExists,    \* backend: the index exists
    index,          \* backend: id -> stored content, or NoDoc
    pc,             \* "idle", "search" (inside a pagination loop) or "done"
    calls,          \* backend round-trips issued by the current/last operation
    pre,            \* snapshot taken when the current/last operation started
    last,           \* the current/last operation, its inputs and its outcome
    skw,            \* search loop: **kwargs and the backend's behaviour
    top_k,          \* search loop: target count, or None
    from_,          \* search loop: offset of the next fetch
    documents,      \* search loop: accumulated hits (backend ranks)
    offsets,        \* search loop: offsets of the fetches issued so far
    total,          \* search loop: total reported by the last page, or None
    tpc,            \* concurrent callers: each thread's position in its call
    setupBy,        \* concurrent callers: the threads that ran the setup work
    hit,            \* hit mapping: the hit handed to _deserialize_document
    mapped          \* hit mapping: what _deserialize_document made of it

vars == <<initialized, client, async_client, kwargs, indexExists, index, pc,
          calls, pre, last, skw, top_k, from_, documents, offsets, total,
          tpc, setupBy, hit, mapped>>

storeVars == <<initialized, client, async_client, kwargs, indexExists>>
searchVars == <<skw, top_k, from_, documents, offsets, total>>
threadVars == <<tpc, setupBy>>
hitVars == <<hit, mapped>>

\* ------------------------------------------------------------- utilities
Range(s) == {s[i] : i \in 1..Len(s)}

count(idx) == Cardinality({i \in Ids : idx[i] # NoDoc})

StoreState == [initialized |-> initialized, client |-> client,
               async_client |-> async_client, kwargs |-> kwargs,
               indexExists |-> indexExists]

\* ------------------------------------------------- _ensure_initialized
\* (variant: the flag is not tested, the setup runs at every call)
ensure_initialized_always(s, fail) ==
    LET s1 == [s EXCEPT !.kwargs = @ \ {"headers"},
                        !.client = TRUE, !.async_client = TRUE] IN
    IF fail = "info"
      THEN [s |-> s1, calls |-> <<"info">>, error |-> "InitError"]
    ELSE IF fail = "exists"
      THEN [s |-> s1, calls |-> <<"info", "exists">>, error |-> "InitError"]
    ELSE IF ~s.indexExists
      THEN IF fail = "create"
             THEN [s |-> s1, calls |-> <<"info", "exists", "create">>,
                   error |-> "InitError"]
             ELSE [s |-> [s1 EXCEPT !.indexExists = TRUE, !.initialized = TRUE],
                   calls |-> <<"info", "exists", "create">>, error |-> "none"]
    ELSE [s |-> [s1 EXCEPT !.initialized = TRUE],
          calls |-> <<"info", "exists">>, error |-> "none"]

\* (variant: the setup builds the synchronous client only)
ensure_initialized_sync_client(s, fail) ==
    IF s.initialized THEN [s |-> s, calls |-> <<>>, error |-> "none"]
    ELSE LET r == ensure_initialized_always(s, fail)
         IN [r EXCEPT !.s.async_client = s.async_client]

\* s is the store's state; fail is where the backend fails.  Returns the
\* new state, the round-trips issued and the error raised ("none" if none).
ensure_initialized(s, fail) ==
    IF s.initialized THEN [s |-> s, calls |-> <<>>, error |-> "none"]
    ELSE
      LET s1 == [s EXCEPT !.kwargs = @ \ {"headers"},
                          !.client = TRUE, !.async_client = TRUE] IN
      IF fail = "info"
        THEN [s |-> s1, calls |-> <<"info">>, error |-> "InitError"]
      ELSE IF fail = "exists"
        THEN [s |-> s1, calls |-> <<"info", "exists">>, error |-> "InitError"]
      ELSE IF ~s.indexExists
        THEN IF fail = "create"
               THEN [s |-> s1, calls |-> <<"info", "exists", "create">>,
                     error |-> "InitError"]
               ELSE [s |-> [s1 EXCEPT !.indexExists = TRUE, !.initialized = TRUE],
                     calls |-> <<"info", "exists", "create">>, error |-> "none"]
      ELSE [s |-> [s1 EXCEPT !.initialized = TRUE],
            calls |-> <<"info", "exists">>, error |-> "none"]

\* --------------------------------------------------------- helpers.bulk
\* One item of a bulk request against the index idx.  other is the set of
\* identifiers the backend rejects for a reason other than a conflict.
BulkItem(idx, a, other) ==
    IF a.op_type = "delete"
      THEN IF idx[a.id] = NoDoc
             THEN [idx |-> idx, ok |-> FALSE,
                   err |-> [verb |-> "delete", id |-> a.id, status |-> 404,
                            type |-> "not_found"]]
             ELSE [idx |-> [idx EXCEPT ![a.id] = NoDoc], ok |-> TRUE,
                   err |-> [verb |-> "delete", id |-> a.id, status |-> 200,
                            type |-> "ok"]]
    ELSE IF a.id \in other
      THEN [idx |-> idx, ok |-> FALSE,
            err |-> [verb |-> a.op_type, id |-> a.id, status |-> 400,
                     type |-> "mapper_parsing_exception"]]
    ELSE IF a.op_type = "create" /\ idx[a.id] # NoDoc
      THEN [idx |-> idx, ok |-> FALSE,
            err |-> [verb |-> "create", id |-> a.id, status |-> DOC_ALREADY_EXISTS,
                     type |-> "version_conflict_engine_exception"]]
    ELSE [idx |-> [idx EXCEPT ![a.id] = a.source.content], ok |-> TRUE,
          err |-> [verb |-> a.op_type, id |-> a.id, status |-> 201,
                   type |-> "ok"]]

RECURSIVE bulk_abort(_, _, _)
\* (variant: the batch is abandoned at the first item that fails)
bulk_abort(idx, actions, other) ==
    IF actions = <<>> THEN [idx |-> idx, success |-> 0, errors |-> <<>>]
    ELSE LET r == BulkItem(idx, Head(actions), other) IN
         IF ~r.ok THEN [idx |-> idx, success |-> 0, errors |-> <<r.err>>]
         ELSE LET rest == bulk_abort(r.idx, Tail(actions), other)
              IN [idx |-> rest.idx, success |-> rest.success + 1,
                  errors |-> rest.errors]

RECURSIVE bulk(_, _, _)
\* The whole batch, item by item in order: the new index, the number of
\* successes and the list of per-item failures (raise_on_error=False).
bulk(idx, actions, other) ==
    IF actions = <<>> THEN [idx |-> idx, success |-> 0, errors |-> <<>>]
    ELSE LET r == BulkItem(idx, Head(actions), other)
             rest == bulk(r.idx, Tail(actions), other)
         IN [idx |-> rest.idx,
             success |-> rest.success + (IF r.ok THEN 1 ELSE 0),
             errors |-> (IF r.ok THEN <<>> ELSE <<r.err>>) \o rest.errors]

\* ------------------------------------------------------ write_documents
\* policy NONE resolves to FAIL
ResolvePolicy(policy) == IF policy = "NONE" THEN "FAIL" ELSE policy

\* (variant: the verb does not follow the policy)
op_type_sync_create(policy) == "create"

\* the bulk verb of the synchronous write, from the resolved policy
op_type_sync(policy) == IF policy = "OVERWRITE" THEN "index" ELSE "create"

\* the bulk verb of the asynchronous write, from the resolved policy
op_type_async(policy) == IF policy = "FAIL" THEN "create" ELSE "index"

\* the check on the batch's first element
FirstIsNotDocument(docs) == Len(docs) > 0 /\ docs[1].kind # "Document"

\* doc.to_dict() inside the loop fails on an object that has no such method
ToDictFails(docs) == \E i \in 1..Len(docs) : docs[i].kind # "Document"

\* doc.to_dict(): the Document's fields as a mapping
to_dict(doc) ==
    [id |-> doc.id, content |-> doc.content,
     sparse_embedding |-> doc.sparse_embedding]

\* (variant: the sparse embedding is not popped)
doc_dict_keep(doc) == to_dict(doc)

\* the record submitted for a document: to_dict() with the key
\* "sparse_embedding" popped
doc_dict(doc) ==
    LET d == to_dict(doc) IN
    IF "sparse_embedding" \in DOMAIN d
      THEN [k \in (DOMAIN d) \ {"sparse_embedding"} |-> d[k]]
      ELSE d

\* (variant: the loop starts after the element that was type-checked)
elasticsearch_actions_skip(docs, verb) ==
    [i \in 1..(Len(docs) - 1) |->
        [op_type |-> verb, id |-> docs[i + 1].id, source |-> doc_dict(docs[i + 1])]]

\* the bulk actions built by the loop over the batch
elasticsearch_actions(docs, verb) ==
    [i \in 1..Len(docs) |->
        [op_type |-> verb, id |-> docs[i].id, source |-> doc_dict(docs[i])]]

IsConflict(e) == e.type = "version_conflict_engine_exception"

\* (variant: the error is raised at the first conflict found)
duplicate_errors_ids_first(policy, errors) ==
    LET dup == SelectSeq(errors, LAMBDA e : policy = "FAIL" /\ IsConflict(e))
    IN IF dup = <<>> THEN <<>> ELSE <<dup[1].id>>

\* the identifiers collected for DuplicateDocumentError, in batch order
duplicate_errors_ids(policy, errors) ==
    LET dup == SelectSeq(errors, LAMBDA e : policy = "FAIL" /\ IsConflict(e))
    IN [i \in 1..Len(dup) |-> dup[i].id]

\* the failures collected for DocumentStoreError
other_errors(policy, errors) ==
    SelectSeq(errors, LAMBDA e : ~(policy \in {"FAIL", "SKIP"} /\ IsConflict(e)))

\* Reconciliation of the synchronous write: every failure is read under the
\* key "create", which a failure reported under another verb does not have.
ReconcileSync(policy, errors, documents_written) ==
    IF errors = <<>>
      THEN [outcome |-> "ok", cause |-> "none", ret |-> documents_written, ids |-> <<>>]
    ELSE IF \E i \in 1..Len(errors) : errors[i].verb # "create"
      THEN [outcome |-> "KeyError", cause |-> "KeyError", ret |-> None, ids |-> <<>>]
    ELSE IF Len(duplicate_errors_ids(policy, errors)) > 0
      THEN [outcome |-> "DuplicateDocumentError", cause |-> "DuplicateDocumentError",
            ret |-> None, ids |-> duplicate_errors_ids(policy, errors)]
    ELSE IF Len(other_errors(policy, errors)) > 0
      THEN [outcome |-> "DocumentStoreError", cause |-> "DocumentStoreError",
            ret |-> None, ids |-> <<>>]
    ELSE [outcome |-> "ok", cause |-> "none", ret |-> documents_written, ids |-> <<>>]

\* What the body of the try block of the asynchronous write raises or returns.
RaisedInTry(policy, failed, success) ==
    IF failed = <<>>
      THEN [outcome |-> "ok", cause |-> "none", ret |-> success, ids |-> <<>>]
    ELSE LET dup == SelectSeq(failed, LAMBDA e :
                        e.verb = "create" /\ e.status = DOC_ALREADY_EXISTS)
         IN IF policy = "FAIL" /\ dup # <<>>
              THEN [outcome |-> "DuplicateDocumentError",
                    cause |-> "DuplicateDocumentError",
                    ret |-> None, ids |-> <<dup[1].id>>]
              ELSE [outcome |-> "DocumentStoreError", cause |-> "DocumentStoreError",
                    ret |-> None, ids |-> <<>>]

\* `except Exception as e: raise DocumentStoreError(msg) from e`
ExceptException(r) ==
    IF r.outcome = "ok" THEN r ELSE [r EXCEPT !.outcome = "DocumentStoreError"]

ReconcileAsync(policy, failed, success) ==
    ExceptException(RaisedInTry(policy, failed, success))

\* an operation that stopped before any bulk request
NoBulk(s, idx, cs, outcome) ==
    [s |-> s, idx |-> idx, calls |-> cs, outcome |-> outcome, cause |-> outcome,
     ret |-> None, ids |-> <<>>, verbs |-> <<>>, sources |-> <<>>,
     errors |-> <<>>]

\* write_documents: the whole call, from the store state s and the index idx
WriteSync(s, idx, docs, policy0, fail, other) ==
    IF FirstIsNotDocument(docs) THEN NoBulk(s, idx, <<>>, "ValueError")
    ELSE
      LET policy == ResolvePolicy(policy0)
          verb == op_type_sync(policy)
      IN
      IF ToDictFails(docs) THEN NoBulk(s, idx, <<>>, "AttributeError")
      ELSE
        LET ini == ensure_initialized(s, fail) IN
        IF ini.error # "none" THEN NoBulk(ini.s, idx, ini.calls, ini.error)
        ELSE
          LET acts == elasticsearch_actions(docs, verb)
              b == bulk(idx, acts, other)
              rec == ReconcileSync(policy, b.errors, b.success)
          IN [s |-> ini.s, idx |-> b.idx, calls |-> ini.calls \o <<"bulk">>,
              outcome |-> rec.outcome, cause |-> rec.cause, ret |-> rec.ret,
              ids |-> rec.ids,
              verbs |-> [i \in 1..Len(acts) |-> acts[i].op_type],
              sources |-> [i \in 1..Len(acts) |-> acts[i].source],
              errors |-> b.errors]

\* write_documents_async: the whole call
WriteAsync(s, idx, docs, policy0, fail, other) ==
    LET ini == ensure_initialized(s, fail) IN
    IF ini.error # "none" THEN NoBulk(ini.s, idx, ini.calls, ini.error)
    ELSE IF FirstIsNotDocument(docs) THEN NoBulk(ini.s, idx, ini.calls, "ValueError")
    ELSE
      LET policy == ResolvePolicy(policy0)
          verb == op_type_async(policy)
      IN
      IF ToDictFails(docs) THEN NoBulk(ini.s, idx, ini.calls, "AttributeError")
      ELSE
        LET acts == elasticsearch_actions(docs, verb)
            b == bulk(idx, acts, other)
            rec == ReconcileAsync(policy, b.errors, b.success)
        IN [s |-> ini.s, idx |-> b.idx, calls |-> ini.calls \o <<"bulk">>,
            outcome |-> rec.outcome, cause |-> rec.cause, ret |-> rec.ret,
            ids |-> rec.ids,
            verbs |-> [i \in 1..Len(acts) |-> acts[i].op_type],
            sources |-> [i \in 1..Len(acts) |-> acts[i].source],
            errors |-> b.errors]

\* ----------------------------------------------------- delete_documents
delete_actions(document_ids) ==
    [i \in 1..Len(document_ids) |->
        [op_type |-> "delete", id |-> document_ids[i], source |-> NoDoc]]

\* (variant: the bulk request goes through the handle, not the accessor)
DeleteSync_handle(s, idx, document_ids, fail) ==
    LET b == bulk(idx, delete_actions(document_ids), {})
    IN [s |-> s, idx |-> b.idx, calls |-> <<"bulk">>,
        outcome |-> "ok", cause |-> "none", ret |-> None, ids |-> <<>>,
        verbs |-> [i \in 1..Len(document_ids) |-> "delete"],
        sources |-> <<>>,
        errors |-> b.errors]

\* delete_documents: self.client runs the setup; the result of the bulk
\* call is not looked at
DeleteSync(s, idx, document_ids, fail) ==
    LET ini == ensure_initialized(s, fail) IN
    IF ini.error # "none" THEN NoBulk(ini.s, idx, ini.calls, ini.error)
    ELSE LET b == bulk(idx, delete_actions(document_ids), {})
         IN [s |-> ini.s, idx |-> b.idx, calls |-> ini.calls \o <<"bulk">>,
             outcome |-> "ok", cause |-> "none", ret |-> None, ids |-> <<>>,
             verbs |-> [i \in 1..Len(document_ids) |-> "delete"],
             sources |-> <<>>,
             errors |-> b.errors]

\* delete_documents_async: async_bulk raises on a failed item (raise_on_error
\* is left at its default) and the except clause wraps what was raised
DeleteAsync(s, idx, document_ids, fail) ==
    LET ini == ensure_initialized(s, fail) IN
    IF ini.error # "none" THEN NoBulk(ini.s, idx, ini.calls, ini.error)
    ELSE LET b == bulk(idx, delete_actions(document_ids), {})
             raised == [outcome |-> IF b.errors = <<>> THEN "ok" ELSE "BulkIndexError",
                        cause |-> IF b.errors = <<>> THEN "none" ELSE "BulkIndexError",
                        ret |-> None, ids |-> <<>>]
             rec == ExceptException(raised)
         IN [s |-> ini.s, idx |-> b.idx, calls |-> ini.calls \o <<"bulk">>,
             outcome |-> rec.outcome, cause |-> rec.cause, ret |-> None,
             ids |-> <<>>,
             verbs |-> [i \in 1..Len(document_ids) |-> "delete"],
             sources |-> <<>>,
             errors |-> b.errors]

\* ------------------------------------------------------ count_documents
\* count_documents and count_documents_async run the same steps
CountDocuments(s, idx, fail) ==
    LET ini == ensure_initialized(s, fail) IN
    IF ini.error # "none" THEN NoBulk(ini.s, idx, ini.calls, ini.error)
    ELSE [s |-> ini.s, idx |-> idx, calls |-> ini.calls \o <<"count">>,
          outcome |-> "ok", cause |-> "none", ret |-> count(idx), ids |-> <<>>,
          verbs |-> <<>>, sources |-> <<>>, errors |-> <<>>]

\* ------------------------------------------------------------ validation
\* (variant: one `not` missing)
FilterInvalid_conditions(f) == ~f.empty /\ ~f.operator /\ f.conditions

\* `filters and "operator" not in filters and "conditions" not in filters`
FilterInvalid(f) == ~f.empty /\ ~f.operator /\ ~f.conditions

\* ------------------------------------------------------ the caller's view
EmptyFilter == [empty |-> TRUE, operator |-> FALSE, conditions |-> FALSE]

Call(op, mode) ==
    [op |-> op, mode |-> mode, policy |-> "NONE", documents |-> <<>>,
     document_ids |-> <<>>, filters |-> EmptyFilter, empty_query |-> FALSE,
     other |-> {}, num_candidates |-> None,
     outcome |-> "running", cause |-> "none", ret |-> None, ids |-> <<>>,
     verbs |-> <<>>, sources |-> <<>>, errors |-> <<>>]

NoCall == [Call("none", "sync") EXCEPT !.outcome = "none"]

Snapshot(s, idx) == [s |-> s, index |-> idx]

NoSearch == [size |-> None, knn_k |-> None, num_candidates |-> None,
             backend |-> "static", T |-> 0]

\* the failures the environment can inject into the setup of store state s
Fails(s) == IF s.initialized THEN {"none"} ELSE InitFailures

DocIds(docs) == {docs[i].id : i \in 1..Len(docs)} \cap Ids

SetStore(s) ==
    /\ initialized' = s.initialized
    /\ client' = s.client
    /\ async_client' = s.async_client
    /\ kwargs' = s.kwargs
    /\ indexExists' = s.indexExists

\* an operation that completes in one step with result r
Complete(call, r) ==
    /\ SetStore(r.s)
    /\ index' = r.idx
    /\ calls' = r.calls
    /\ pre' = Snapshot(StoreState, index)
    /\ last' = [call EXCEPT !.outcome = r.outcome, !.cause = r.cause,
                            !.ret = r.ret, !.ids = r.ids, !.verbs = r.verbs,
                            !.sources = r.sources,
                            !.errors = r.errors]
    /\ pc' = "done"
    /\ UNCHANGED <<searchVars, threadVars, hitVars>>

\* ------------------------------------------------- the paginated search
\* (variant: the k of the vector-search spec is not looked at)
TargetCount_size(kw) == kw.size

\* the target count of _search_documents / _search_documents_async
TargetCount(kw) ==
    IF kw.size # None THEN kw.size
    ELSE IF kw.knn_k # None THEN kw.knn_k
    ELSE None

\* the number of hits the backend puts in one page
PageSize(kw) == IF kw.size # None THEN kw.size ELSE DefaultSize

Min(a, b) == IF a < b THEN a ELSE b
Max(a, b) == IF a > b THEN a ELSE b

\* The responses the backend may give to a fetch at offset off: a static
\* backend serves its T hits in order; a free one answers anything.
Responses(kw, off) ==
    IF kw.backend = "static"
      THEN {[n |-> Max(0, Min(PageSize(kw), kw.T - off)), total |-> kw.T]}
      ELSE [n : 0..PageSize(kw), total : 0..MaxTotal]

\* (variant: the loop goes on until the offset exceeds the total)
Paginate_gt(docs, off, res, tk) ==
    LET docs1 == docs \o [i \in 1..res.n |-> off + i]
        off1 == Len(docs1)
    IN [documents |-> docs1, from_ |-> off1,
        stop |-> (tk # None /\ off1 >= tk) \/ off1 > res.total]

\* One iteration of the loop after the response res to the fetch at off:
\* extend the result, move the offset, decide whether to break.
Paginate(docs, off, res, tk) ==
    LET docs1 == docs \o [i \in 1..res.n |-> off + i]
        off1 == Len(docs1)
    IN [documents |-> docs1, from_ |-> off1,
        stop |-> (tk # None /\ off1 >= tk) \/ off1 >= res.total]

\* enter the loop: top_k from the kwargs, from_ = 0, documents = []
StartSearch(call, s, cs, kw) ==
    /\ SetStore(s)
    /\ calls' = cs
    /\ pre' = Snapshot(StoreState, index)
    /\ last' = call
    /\ pc' = "search"
    /\ skw' = kw
    /\ top_k' = TargetCount(kw)
    /\ from_' = 0
    /\ documents' = <<>>
    /\ offsets' = <<>>
    /\ total' = None
    /\ UNCHANGED <<index, threadVars, hitVars>>

\* one page fetch with response res, the store being in state s
Fetch(s, cs, res) ==
    LET p == Paginate(documents, from_, res, top_k) IN
    /\ SetStore(s)
    /\ calls' = calls \o cs \o <<"search">>
    /\ offsets' = Append(offsets, from_)
    /\ documents' = p.documents
    /\ from_' = p.from_
    /\ total' = res.total
    /\ IF p.stop
         THEN /\ pc' = "done"
              /\ last' = [last EXCEPT !.outcome = "ok", !.ret = Len(p.documents)]
         ELSE /\ pc' = "search"
              /\ last' = last
    /\ UNCHANGED <<index, pre, skw, top_k, threadVars, hitVars>>

\* _search_documents: self.client runs the setup before each fetch
search_documents ==
    /\ pc = "search" /\ last.mode = "sync"
    /\ Len(offsets) < MaxFetch
    /\ \E fail \in Fails(StoreState) :
         LET ini == ensure_initialized(StoreState, fail) IN
         IF ini.error # "none"
           THEN /\ SetStore(ini.s)
                /\ calls' = calls \o ini.calls
                /\ last' = [last EXCEPT !.outcome = ini.error, !.cause = ini.error]
                /\ pc' = "done"
                /\ UNCHANGED <<index, pre, searchVars, threadVars, hitVars>>
           ELSE \E res \in Responses(skw, from_) : Fetch(ini.s, ini.calls, res)

\* _search_documents_async: reads self._async_client without the accessor
search_documents_async ==
    /\ pc = "search" /\ last.mode = "async"
    /\ Len(offsets) < MaxFetch
    /\ \E res \in Responses(skw, from_) : Fetch(StoreState, <<>>, res)

\* the search requests the environment may be asked
Backends == [backend : {"static"}, T : 0..MaxTotal] \cup [backend : {"free"}, T : {0}]

Kwargs(size, k, nc, be) ==
    [size |-> size, knn_k |-> k, num_candidates |-> nc,
     backend |-> be.backend, T |-> be.T]

\* an operation that stops before searching, with error err
Stop(call, s, cs, err) ==
    Complete(call, NoBulk(s, index, cs, err))

\* ------------------------------------------------------------ operations
idle == pc = "idle"

write_documents ==
    /\ idle
    /\ \E docs \in Batches, policy \in Policies, fail \in Fails(StoreState) :
         \E other \in SUBSET DocIds(docs) :
           Complete([Call("write_documents", "sync") EXCEPT
                        !.policy = policy, !.documents = docs,
                        !.other = other],
                    WriteSync(StoreState, index, docs, policy, fail, other))

write_documents_async ==
    /\ idle
    /\ \E docs \in Batches, policy \in Policies, fail \in Fails(StoreState) :
         \E other \in SUBSET DocIds(docs) :
           Complete([Call("write_documents", "async") EXCEPT
                        !.policy = policy, !.documents = docs,
                        !.other = other],
                    WriteAsync(StoreState, index, docs, policy, fail, other))

delete_documents ==
    /\ idle
    /\ \E document_ids \in IdLists, fail \in Fails(StoreState) :
         Complete([Call("delete_documents", "sync") EXCEPT
                      !.document_ids = document_ids],
                  DeleteSync(StoreState, index, document_ids, fail))

delete_documents_async ==
    /\ idle
    /\ \E document_ids \in IdLists, fail \in Fails(StoreState) :
         Complete([Call("delete_documents", "async") EXCEPT
                      !.document_ids = document_ids],
                  DeleteAsync(StoreState, index, document_ids, fail))

count_documents ==
    /\ idle
    /\ \E fail \in Fails(StoreState) :
         Complete(Call("count_documents", "sync"),
                  CountDocuments(StoreState, index, fail))

count_documents_async ==
    /\ idle
    /\ \E fail \in Fails(StoreState) :
         Complete(Call("count_documents", "async"),
                  CountDocuments(StoreState, index, fail))

\* filter_documents and filter_documents_async: validate, set up, normalise,
\* search.  normOk is the verdict of _normalize_filters on the filter.
FilterDocuments(mode) ==
    /\ \E f \in Filters, fail \in Fails(StoreState), normOk \in BOOLEAN,
          be \in Backends :
         LET call == [Call("filter_documents", mode) EXCEPT !.filters = f] IN
         IF FilterInvalid(f) THEN Stop(call, StoreState, <<>>, "ValueError")
         ELSE
           LET ini == ensure_initialized(StoreState, fail) IN
           IF ini.error # "none" THEN Stop(call, ini.s, ini.calls, ini.error)
           ELSE IF ~f.empty /\ ~normOk
             THEN Stop(call, ini.s, ini.calls, "FilterError")
           ELSE StartSearch(call, ini.s, ini.calls, Kwargs(None, None, None, be))

filter_documents ==
    /\ idle
    /\ FilterDocuments("sync")

filter_documents_async ==
    /\ idle
    /\ FilterDocuments("async")

\* _bm25_retrieval: the query is checked first; the setup runs at the first
\* fetch, inside _search_documents
bm25_retrieval ==
    /\ idle
    /\ \E empty_query \in BOOLEAN, f \in Filters, normOk \in BOOLEAN,
          k \in 0..MaxTopK, be \in Backends :
         LET call == [Call("_bm25_retrieval", "sync") EXCEPT
                         !.filters = f, !.empty_query = empty_query] IN
         IF empty_query THEN Stop(call, StoreState, <<>>, "ValueError")
         ELSE IF ~f.empty /\ ~normOk
           THEN Stop(call, StoreState, <<>>, "FilterError")
         ELSE StartSearch(call, StoreState, <<>>, Kwargs(k, None, None, be))

\* _bm25_retrieval_async: the setup runs first, then the query is checked
bm25_retrieval_async ==
    /\ idle
    /\ \E empty_query \in BOOLEAN, f \in Filters, normOk \in BOOLEAN,
          k \in 0..MaxTopK, be \in Backends, fail \in Fails(StoreState) :
         LET call == [Call("_bm25_retrieval", "async") EXCEPT
                         !.filters = f, !.empty_query = empty_query]
             ini == ensure_initialized(StoreState, fail)
         IN
         IF ini.error # "none" THEN Stop(call, ini.s, ini.calls, ini.error)
         ELSE IF empty_query THEN Stop(call, ini.s, ini.calls, "ValueError")
         ELSE IF ~f.empty /\ ~normOk
           THEN Stop(call, ini.s, ini.calls, "FilterError")
         ELSE StartSearch(call, ini.s, ini.calls, Kwargs(k, None, None, be))

\* the candidate pool sizes a caller passes (None: not specified)
NumCandidates == {None, 0, MaxTopK + 1}

\* `if not num_candidates: num_candidates = top_k * 10`
num_candidates_sync(nc, k) == IF nc = None \/ nc = 0 THEN k * 10 ELSE nc

\* `if num_candidates is None: num_candidates = top_k * 10`
num_candidates_async(nc, k) == IF nc = None THEN k * 10 ELSE nc

\* _embedding_retrieval: the vector is checked first
embedding_retrieval ==
    /\ idle
    /\ \E empty_query \in BOOLEAN, f \in Filters, normOk \in BOOLEAN,
          k \in 0..MaxTopK, nc \in NumCandidates, be \in Backends :
         LET call == [Call("_embedding_retrieval", "sync") EXCEPT
                         !.filters = f, !.empty_query = empty_query,
                         !.num_candidates = nc] IN
         IF empty_query THEN Stop(call, StoreState, <<>>, "ValueError")
         ELSE IF ~f.empty /\ ~normOk
           THEN Stop(call, StoreState, <<>>, "FilterError")
         ELSE StartSearch(call, StoreState, <<>>,
                          Kwargs(None, k, num_candidates_sync(nc, k), be))

\* _embedding_retrieval_async: the setup runs first, then the vector is checked
embedding_retrieval_async ==
    /\ idle
    /\ \E empty_query \in BOOLEAN, f \in Filters, normOk \in BOOLEAN,
          k \in 0..MaxTopK, nc \in NumCandidates, be \in Backends,
          fail \in Fails(StoreState) :
         LET call == [Call("_embedding_retrieval", "async") EXCEPT
                         !.filters = f, !.empty_query = empty_query,
                         !.num_candidates = nc]
             ini == ensure_initialized(StoreState, fail)
         IN
         IF ini.error # "none" THEN Stop(call, ini.s, ini.calls, ini.error)
         ELSE IF empty_query THEN Stop(call, ini.s, ini.calls, "ValueError")
         ELSE IF ~f.empty /\ ~normOk
           THEN Stop(call, ini.s, ini.calls, "FilterError")
         ELSE StartSearch(call, ini.s, ini.calls,
                          Kwargs(None, k, num_candidates_async(nc, k), be))

\* the caller takes the outcome of the operation and is ready to call again
Return ==
    /\ pc = "done"
    /\ pc' = "idle"
    /\ last' = NoCall
    /\ calls' = <<>>
    /\ pre' = Snapshot(StoreState, index)
    /\ skw' = NoSearch
    /\ top_k' = None
    /\ from_' = 0
    /\ documents' = <<>>
    /\ offsets' = <<>>
    /\ total' = None
    /\ UNCHANGED <<storeVars, index, threadVars, hitVars>>

\* ------------------------------------------------------- specification
Init ==
    /\ initialized = FALSE
    /\ client = FALSE
    /\ async_client = FALSE
    /\ kwargs \in {{}, {"headers"}}
    /\ indexExists \in BOOLEAN
    /\ index = [i \in Ids |-> NoDoc]
    /\ pc = "idle"
    /\ calls = <<>>
    /\ pre = Snapshot([initialized |-> FALSE, client |-> FALSE,
                       async_client |-> FALSE, kwargs |-> kwargs,
                       indexExists |-> indexExists], index)
    /\ last = NoCall
    /\ skw = NoSearch
    /\ top_k = None
    /\ from_ = 0
    /\ documents = <<>>
    /\ offsets = <<>>
    /\ total = None
    /\ tpc = [t \in Threads |-> "start"]
    /\ setupBy = {}
    /\ hit = NoHit
    /\ mapped = NoHit

Next ==
    \/ write_documents
    \/ write_documents_async
    \/ delete_documents
    \/ delete_documents_async
    \/ count_documents
    \/ count_documents_async
    \/ filter_documents
    \/ filter_documents_async
    \/ bm25_retrieval
    \/ bm25_retrieval_async
    \/ embedding_retrieval
    \/ embedding_retrieval_async
    \/ search_documents
    \/ search_documents_async
    \/ Return

Spec == Init /\ [][Next]_vars

\* ------------------------------------------- concurrent first use
\* Several threads call count_documents on the same store instance.  A
\* thread can be pre-empted between any two statements of
\* _ensure_initialized, and is while it waits for a backend round-trip.
seqVars == <<index, pc, calls, pre, last, searchVars, hitVars>>

At(t, pos) == tpc[t] = pos
Goto(t, pos) == tpc' = [tpc EXCEPT ![t] = pos]

\* `if not self._initialized:`
t_check ==
    \E t \in Threads :
      /\ At(t, "start")
      /\ Goto(t, IF initialized THEN "data" ELSE "build")
      /\ UNCHANGED <<storeVars, setupBy, seqVars>>

\* the headers are popped from the kwargs and the two clients are built
t_build ==
    \E t \in Threads :
      /\ At(t, "build")
      /\ kwargs' = kwargs \ {"headers"}
      /\ client' = TRUE
      /\ async_client' = TRUE
      /\ setupBy' = setupBy \cup {t}
      /\ Goto(t, "info")
      /\ UNCHANGED <<initialized, indexExists, seqVars>>

\* `self._client.info()`: raises if the backend cannot be reached
t_info ==
    \E t \in Threads, ok \in BOOLEAN :
      /\ At(t, "info")
      /\ Goto(t, IF ok THEN "exists" ELSE "error")
      /\ UNCHANGED <<storeVars, setupBy, seqVars>>

\* `if not self._client.indices.exists(index=self._index):`
t_exists ==
    \E t \in Threads, ok \in BOOLEAN :
      /\ At(t, "exists")
      /\ Goto(t, IF ~ok THEN "error" ELSE IF indexExists THEN "set" ELSE "create")
      /\ UNCHANGED <<storeVars, setupBy, seqVars>>

\* `self._client.indices.create(...)`: the backend refuses to create an
\* index that exists by now
t_create ==
    \E t \in Threads, ok \in BOOLEAN :
      /\ At(t, "create")
      /\ IF ok /\ ~indexExists
           THEN indexExists' = TRUE /\ Goto(t, "set")
           ELSE indexExists' = indexExists /\ Goto(t, "error")
      /\ UNCHANGED <<initialized, client, async_client, kwargs, setupBy, seqVars>>

\* `self._initialized = True`
t_set ==
    \E t \in Threads :
      /\ At(t, "set")
      /\ initialized' = TRUE
      /\ Goto(t, "data")
      /\ UNCHANGED <<client, async_client, kwargs, indexExists, setupBy, seqVars>>

\* `self.client.count(index=self._index)`: the data call
t_count ==
    \E t \in Threads :
      /\ At(t, "data")
      /\ Goto(t, "done")
      /\ UNCHANGED <<storeVars, setupBy, seqVars>>

NextThreads ==
    \/ t_check
    \/ t_build
    \/ t_info
    \/ t_exists
    \/ t_create
    \/ t_set
    \/ t_count

SpecThreads == Init /\ [][NextThreads]_vars

\* ------------------------------------------------ _deserialize_document
\* the mapping d with d[k] = v
Assign(d, k, v) ==
    [x \in DOMAIN d \cup {k} |-> IF x = k THEN v ELSE d[x]]

\* The mapping handed to Document.from_dict for the hit h, or the KeyError
\* of `data["metadata"]` when the source has no such key.
deserialize_document(h) ==
    LET data == h._source IN
    IF "highlight" \in DOMAIN h /\ "metadata" \notin DOMAIN data
      THEN [outcome |-> "KeyError", data |-> data]
    ELSE
      LET data1 == IF "highlight" \in DOMAIN h
                     THEN Assign(data, "metadata",
                                 Assign(data.metadata, "highlighted", h.highlight))
                     ELSE data
      IN [outcome |-> "ok", data |-> Assign(data1, "score", h._score)]

\* the store maps one hit of a search response
DeserializeHit ==
    \E h \in Hits :
      /\ hit' = h
      /\ mapped' = deserialize_document(h)
      /\ UNCHANGED <<storeVars, index, pc, calls, pre, last, searchVars,
                     threadVars>>

NextHits == DeserializeHit

SpecHits == Init /\ [][NextHits]_vars

\* ----------------------------------------------------------- properties
\* vocabulary of the properties: what the caller and the backend observed
Wrote == pc = "done" /\ last.op = "write_documents"
BulkSubmitted == "bulk" \in Range(calls)
AllDocuments == \A i \in 1..Len(last.documents) : last.documents[i].kind = "Document"
BatchIds == {last.documents[i].id : i \in 1..Len(last.documents)}
ReportedConflicts ==
    {last.errors[i].id : i \in {j \in 1..Len(last.errors) :
                                   last.errors[j].status = DOC_ALREADY_EXISTS}}
StoredBefore == {i \in Ids : pre.index[i] # NoDoc}
StoredNow == {i \in Ids : index[i] # NoDoc}
Raised == last.outcome \notin {"ok", "running", "none"}

\* the content of the last element of the batch that carries identifier id
LastWritten(id) ==
    LET at == {i \in 1..Len(last.documents) : last.documents[i].id = id}
    IN last.documents[CHOOSE i \in at : \A j \in at : j <= i].content

\* C1: a synchronous write under FAIL or NONE for which the backend reports
\* at least one identifier conflict raises DuplicateDocumentError, and the
\* error names exactly the identifiers the backend reported as conflicting.
C1_SyncFailNamesAllConflicts ==
    (Wrote /\ last.mode = "sync" /\ last.policy \in {"FAIL", "NONE"}
       /\ BulkSubmitted /\ ReportedConflicts # {})
    => (last.outcome = "DuplicateDocumentError"
        /\ Range(last.ids) = ReportedConflicts)

\* C1 witness: a synchronous FAIL write hit two distinct conflicting
\* identifiers and the error names both.
C1_Witness ==
    /\ Wrote /\ last.mode = "sync" /\ last.policy = "FAIL"
    /\ Cardinality(ReportedConflicts) >= 2
    /\ last.outcome = "DuplicateDocumentError"
    /\ Len(last.ids) >= 2

\* C2: an asynchronous write under FAIL or NONE of a document whose
\* identifier is already stored leaves the method as DuplicateDocumentError.
C2_AsyncDuplicateErrorType ==
    (Wrote /\ last.mode = "async" /\ last.policy \in {"FAIL", "NONE"}
       /\ BulkSubmitted /\ last.other = {}
       /\ BatchIds \cap StoredBefore # {})
    => last.outcome = "DuplicateDocumentError"

\* C3: under SKIP, a write (either mode) whose batch holds identifiers that
\* are already stored raises nothing, leaves the stored documents' content
\* as it was, and returns the number of documents created.
C3_SkipKeepsStored ==
    (Wrote /\ last.policy = "SKIP" /\ BulkSubmitted /\ last.other = {}
       /\ BatchIds \cap StoredBefore # {})
    => (/\ last.outcome = "ok"
        /\ \A i \in StoredBefore : index[i] = pre.index[i]
        /\ last.ret = Cardinality(StoredNow) - Cardinality(StoredBefore))

\* C4: under OVERWRITE, a write of documents whose identifiers are all
\* stored already (the backend rejecting no item) raises nothing, returns
\* the size of the batch, leaves the number of stored documents unchanged
\* and leaves each identifier with the content written last for it.
C4_OverwriteReplaces ==
    (Wrote /\ last.policy = "OVERWRITE" /\ BulkSubmitted /\ last.other = {}
       /\ last.documents # <<>> /\ BatchIds \subseteq StoredBefore)
    => (/\ last.outcome = "ok"
        /\ last.ret = Len(last.documents)
        /\ Cardinality(StoredNow) = Cardinality(StoredBefore)
        /\ \A i \in BatchIds : index[i] = LastWritten(i))

\* C4 witness: a synchronous OVERWRITE write changed the content stored
\* under an identifier that was already present.
C4_Witness ==
    /\ Wrote /\ last.mode = "sync" /\ last.policy = "OVERWRITE"
    /\ last.outcome = "ok"
    /\ \E i \in BatchIds \cap StoredBefore :
         index[i] # pre.index[i] /\ index[i] = LastWritten(i)

\* C5: a write under FAIL of N documents with pairwise distinct identifiers,
\* none of them stored (the backend rejecting no item), returns N and the
\* number of stored documents, which count_documents returns, grows by N.
C5_FreshBatchCounts ==
    (Wrote /\ last.policy = "FAIL" /\ BulkSubmitted /\ last.other = {}
       /\ AllDocuments
       /\ Cardinality(BatchIds) = Len(last.documents)
       /\ BatchIds \cap StoredBefore = {})
    => (/\ last.outcome = "ok"
        /\ last.ret = Len(last.documents)
        /\ count(index) = count(pre.index) + Len(last.documents))

\* C5 witness: a synchronous FAIL write added a new document to a store
\* that already held one.
C5_Witness ==
    /\ Wrote /\ last.mode = "sync" /\ last.policy = "FAIL"
    /\ last.documents # <<>> /\ BatchIds \cap StoredBefore = {}
    /\ StoredBefore # {}
    /\ last.outcome = "ok" /\ last.ret = Len(last.documents)
    /\ count(index) = count(pre.index) + Len(last.documents)

\* C6: in both write variants every item is submitted with the verb "index"
\* if and only if the policy is OVERWRITE, and with "create" otherwise.
C6_VerbSelection ==
    (Wrote /\ BulkSubmitted)
    => \A i \in 1..Len(last.verbs) :
         last.verbs[i] = (IF last.policy = "OVERWRITE" THEN "index" ELSE "create")

\* C7: a write of a non-empty batch holding a non-Document at any position
\* fails with ValueError and submits no bulk request (the setup succeeding).
C7_AnyNonDocumentIsValueError ==
    (Wrote /\ ~AllDocuments /\ last.outcome # "InitError")
    => (last.outcome = "ValueError" /\ ~BulkSubmitted)

\* C8: an empty query (lexical or vector) or a non-Document first element of
\* a write batch is rejected with ValueError before any backend round-trip,
\* the store staying in the state it was in.
C8_ValidationIsPreflight ==
    (/\ pc = "done"
     /\ \/ last.op \in {"_bm25_retrieval", "_embedding_retrieval"} /\ last.empty_query
        \/ /\ last.op = "write_documents" /\ last.documents # <<>>
           /\ last.documents[1].kind # "Document")
    => (last.outcome = "ValueError" /\ calls = <<>> /\ StoreState = pre.s)

\* C9: filter_documents and filter_documents_async, given a non-empty filter
\* whose root has neither "operator" nor "conditions", fail with ValueError
\* before any backend call and leave the store and the backend as they were.
C9_MalformedFilterRejected ==
    (last.op = "filter_documents"
       /\ ~last.filters.empty /\ ~last.filters.operator /\ ~last.filters.conditions)
    => (/\ pc = "done"
        /\ last.outcome = "ValueError"
        /\ calls = <<>>
        /\ StoreState = pre.s
        /\ index = pre.index)

\* C9 witness: the asynchronous filter rejected a malformed filter on a store
\* that is still uninitialised.
C9_Witness ==
    /\ pc = "done" /\ last.op = "filter_documents" /\ last.mode = "async"
    /\ ~last.filters.empty /\ ~last.filters.operator /\ ~last.filters.conditions
    /\ last.outcome = "ValueError"
    /\ ~initialized /\ ~client

\* C10: in the pagination loop the offset strictly increases from one fetch
\* to the next, whatever the backend answers (so the loop ends).
C10_OffsetStrictlyIncreases ==
    [][(pc = "search" /\ pc' = "search") => from_' > from_]_vars

\* the number of pages of size p that hold t hits
Ceil(t, p) == (t + p - 1) \div p

\* a search without target count against a static backend
StaticUnbounded ==
    /\ pc \in {"search", "done"} /\ last.outcome \in {"running", "ok"}
    /\ last.op \in {"filter_documents", "_bm25_retrieval", "_embedding_retrieval"}
    /\ skw.backend = "static" /\ top_k = None

\* the fetches so far were issued at offsets 0, P, 2P, ...
OffsetsAreMultiples ==
    \A i \in 1..Len(offsets) : offsets[i] = (i - 1) * PageSize(skw)

\* the result is the backend's T hits, once each, in backend order
AllHitsInOrder == documents = [i \in 1..skw.T |-> i]

\* C11 (as stated): against a static backend with T hits and pages of size P,
\* a search without target count fetches at offsets 0, P, 2P, ..., issues
\* exactly ceil(T/P) fetches and returns the T hits in backend order.
C11_CeilFetches ==
    StaticUnbounded =>
      (/\ OffsetsAreMultiples
       /\ pc = "done" =>
            (Len(offsets) = Ceil(skw.T, PageSize(skw)) /\ AllHitsInOrder))

\* C11 (amended): as above, with exactly max(1, ceil(T/P)) fetches: one fetch
\* is issued also when the backend reports no hit at all.
C11_AtLeastOneFetch ==
    StaticUnbounded =>
      (/\ OffsetsAreMultiples
       /\ pc = "done" =>
            (/\ Len(offsets) = Max(1, Ceil(skw.T, PageSize(skw)))
             /\ AllHitsInOrder))

\* C11 witness: a search ended after more than one fetch, the last page
\* being shorter than the page size.
C11_Witness ==
    /\ StaticUnbounded /\ pc = "done"
    /\ Len(offsets) >= 2
    /\ skw.T % PageSize(skw) # 0
    /\ Len(documents) = skw.T

\* the round-trips of the one-time setup
SetupCalls == {"info", "exists", "create"}

\* the round-trips issued by the step being taken
NewCalls ==
    IF pc = "search" THEN SubSeq(calls', Len(calls) + 1, Len(calls')) ELSE calls'

\* C12: in a sequential execution the store becomes Ready in one step that
\* performs the setup (probe and index check), and from then on it stays
\* Ready and no operation builds the clients or issues a setup round-trip.
C12_SetupExactlyOnce ==
    [][/\ initialized => initialized'
       /\ initialized =>
            (/\ Range(NewCalls) \cap SetupCalls = {}
             /\ client' = client /\ async_client' = async_client
             /\ kwargs' = kwargs /\ indexExists' = indexExists)
       /\ (~initialized /\ initialized') =>
            (/\ {"info", "exists"} \subseteq Range(NewCalls)
             /\ client' /\ async_client' /\ indexExists')]_vars

\* C12 witness: an operation called on a Ready store submitted its bulk
\* request without any setup round-trip.
C12_Witness ==
    /\ pc = "done" /\ initialized /\ pre.s.initialized
    /\ "bulk" \in Range(calls)
    /\ Range(calls) \cap SetupCalls = {}

\* C13: under concurrent first use the setup work is executed by at most one
\* caller, and a caller reaches its data call only on a store that is Ready.
C13_SetupGuarded ==
    /\ Cardinality(setupBy) <= 1
    /\ \A t \in Threads : tpc[t] \in {"data", "done"} => initialized

\* C14: the vector retrieval (either mode) sends num_candidates = 10 * top_k
\* when the caller gives no candidate pool size, and the caller's value
\* unchanged when it gives one.
C14_CandidatePool ==
    (last.op = "_embedding_retrieval" /\ skw.knn_k # None)
    => skw.num_candidates = (IF last.num_candidates = None
                               THEN 10 * skw.knn_k
                               ELSE last.num_candidates)

\* the identifiers the backend rejected for a reason other than a conflict
ReportedOthers ==
    {last.errors[i].id : i \in {j \in 1..Len(last.errors) :
                                   last.errors[j].status # DOC_ALREADY_EXISTS}}

\* C16: a write (either mode) under FAIL or NONE whose per-item failures hold
\* both identifier conflicts and failures of another kind was submitted
\* whole and raises DuplicateDocumentError, not DocumentStoreError.
C16_DuplicateTakesPriority ==
    (Wrote /\ last.policy \in {"FAIL", "NONE"} /\ BulkSubmitted
       /\ ReportedConflicts # {} /\ ReportedOthers # {})
    => (/\ Len(last.verbs) = Len(last.documents)
        /\ last.outcome = "DuplicateDocumentError")

\* C17: a write (either mode, any policy) for which the backend reports
\* failures, none of them an identifier conflict, raises DocumentStoreError.
C17_OtherFailuresAreStoreErrors ==
    (Wrote /\ BulkSubmitted /\ ReportedOthers # {} /\ ReportedConflicts = {})
    => last.outcome = "DocumentStoreError"

\* C18: whenever write_documents_async has run (its setup succeeding),
\* write_documents called in the same store state on the same batch, with
\* the same policy and the same behaviour of the backend, ends with the same
\* outcome (returned count or error type) and leaves the same documents in
\* the backend.
C18_WriteVariantsAgree ==
    (Wrote /\ last.mode = "async" /\ last.outcome # "InitError")
    => LET sync == WriteSync(pre.s, pre.index, last.documents, last.policy,
                             "none", last.other)
       IN /\ sync.outcome = last.outcome
          /\ sync.ret = last.ret
          /\ sync.idx = index

\* C19: a write (either mode) of Documents of which one carries a sparse
\* embedding submits one record per document, none with the key
\* "sparse_embedding" and each with the document's identifier and content;
\* the write succeeds when the identifiers are new and distinct and the
\* backend rejects no item.
C19_SparseEmbeddingStripped ==
    (Wrote /\ AllDocuments /\ BulkSubmitted
       /\ \E i \in 1..Len(last.documents) :
            last.documents[i].sparse_embedding = "set")
    => (/\ Len(last.sources) = Len(last.documents)
        /\ \A i \in 1..Len(last.sources) :
             /\ "sparse_embedding" \notin DOMAIN last.sources[i]
             /\ last.sources[i].id = last.documents[i].id
             /\ last.sources[i].content = last.documents[i].content
        /\ (/\ last.other = {} /\ BatchIds \cap StoredBefore = {}
            /\ Cardinality(BatchIds) = Len(last.documents))
           => (last.outcome = "ok" /\ last.ret = Len(last.documents)))

\* C19 witness: a batch mixing a document with a sparse embedding and one
\* without was written and both are stored.
C19_Witness ==
    /\ Wrote /\ last.outcome = "ok" /\ last.ret = 2
    /\ \E i, j \in 1..Len(last.documents) :
         /\ last.documents[i].sparse_embedding = "set"
         /\ last.documents[j].sparse_embedding = "unset"
         /\ index[last.documents[i].id] = last.documents[i].content
         /\ "sparse_embedding" \notin DOMAIN last.sources[i]

\* the content of the first element of the batch that carries identifier id
FirstWritten(id) ==
    LET at == {i \in 1..Len(last.documents) : last.documents[i].id = id}
    IN last.documents[CHOOSE i \in at : \A j \in at : i <= j].content

Deleted == pc = "done" /\ last.op = "delete_documents" /\ BulkSubmitted

\* the identifiers of the call that were not stored when it started
DeletedMissing == Range(last.document_ids) \ StoredBefore

\* C21: a delete (either mode) for which the backend reports a per-item
\* failure, such as an identifier that is not stored, raises
\* DocumentStoreError: the failure is not dropped.
C21_DeleteFailuresSurface ==
    (Deleted /\ DeletedMissing # {}) => last.outcome = "DocumentStoreError"

\* the backend round-trips that carry data
DataCalls == {"count", "search", "bulk"}

\* the round-trips issued before the i-th one of the operation
CallsBefore(i) == {calls[j] : j \in 1..(i - 1)}

\* C22: an operation sends a count, search or bulk request only to a store
\* that is Ready; when the store was not Ready as the operation started, the
\* probe and the index check precede the request and no setup round-trip
\* follows it; when it was Ready, the operation issues no setup round-trip.
C22_SetupBeforeData ==
    /\ \A i \in 1..Len(calls) :
         calls[i] \in DataCalls =>
           /\ initialized /\ client /\ async_client
           /\ ~pre.s.initialized => {"info", "exists"} \subseteq CallsBefore(i)
           /\ \A j \in (i + 1)..Len(calls) : calls[j] \notin SetupCalls
    /\ (pc # "idle" /\ pre.s.initialized) => Range(calls) \cap SetupCalls = {}

\* C22 witness: the synchronous delete, called on a store that was not
\* Ready, ran the setup and then submitted its bulk request.
C22_Witness ==
    /\ Deleted /\ last.mode = "sync" /\ ~pre.s.initialized
    /\ calls[Len(calls)] = "bulk"
    /\ {"info", "exists"} \subseteq CallsBefore(Len(calls))
    /\ initialized

\* inside or at the end of a pagination loop that was not cut by an error
Searching ==
    /\ pc \in {"search", "done"} /\ last.outcome \in {"running", "ok"}
    /\ last.op \in {"filter_documents", "_bm25_retrieval", "_embedding_retrieval"}

\* the accumulated count has reached the target count or the total that the
\* last page reported
StopCondition ==
    \/ top_k # None /\ Len(documents) >= top_k
    \/ Len(documents) >= total

\* C23: the target count of the search loop is the explicit size (lexical
\* retrieval), else the k of the vector-search spec (vector retrieval), else
\* unset (filter); the first fetch is at offset 0; after a page the loop goes
\* on exactly when the accumulated count is below both the target count and
\* the total of that page's response, and it ends when either is reached.
C23_TargetAndStop ==
    Searching =>
      /\ top_k = (IF skw.size # None THEN skw.size
                  ELSE IF skw.knn_k # None THEN skw.knn_k ELSE None)
      /\ last.op = "_bm25_retrieval" => (top_k # None /\ top_k = skw.size)
      /\ last.op = "_embedding_retrieval" => (top_k # None /\ top_k = skw.knn_k)
      /\ last.op = "filter_documents" => top_k = None
      /\ Len(offsets) >= 1 => offsets[1] = 0
      /\ (pc = "search" /\ Len(offsets) >= 1) => ~StopCondition
      /\ pc = "done" => (Len(offsets) >= 1 /\ StopCondition)

\* C23 witness: a vector retrieval whose backend served short pages ended at
\* its second fetch because the accumulated count reached k, below the
\* reported total.
C23_Witness ==
    /\ Searching /\ pc = "done" /\ last.op = "_embedding_retrieval"
    /\ Len(offsets) = 2
    /\ top_k = skw.knn_k /\ Len(documents) = top_k
    /\ Len(documents) < total

\* the keys of the source of a hit that are not its metadata mapping
SourceFields(h) == (DOMAIN h._source) \ {"metadata"}

\* C24: mapping a hit succeeds and the result carries the source's fields
\* and the hit's score; a highlighting fragment is attached to the metadata
\* under "highlighted", whether or not the source holds a metadata mapping;
\* without a fragment the metadata is the source's.
C24_HitMapping ==
    hit # NoHit =>
      /\ mapped.outcome = "ok"
      /\ \A k \in SourceFields(hit) : mapped.data[k] = hit._source[k]
      /\ mapped.data.score = hit._score
      /\ "highlight" \in DOMAIN hit =>
           /\ "metadata" \in DOMAIN mapped.data
           /\ mapped.data.metadata.highlighted = hit.highlight
      /\ "highlight" \notin DOMAIN hit =>
           /\ "metadata" \in DOMAIN mapped.data <=> "metadata" \in DOMAIN hit._source
           /\ "metadata" \in DOMAIN mapped.data =>
                mapped.data.metadata = hit._source.metadata

\* C25: a search with an explicit size never accumulates more documents than
\* the size, whatever pages of at most size hits the backend serves.
C25_NeverMoreThanTarget ==
    (Searching /\ skw.size # None) => Len(documents) <= skw.size

\* an operation ended because the one-time setup raised
SetupFailed == pc = "done" /\ last.outcome = "InitError"

\* C26: when the setup fails the error reaches the caller, the store stays
\* Uninitialized and its configuration, the caller's headers included, is
\* what it was before the attempt.
C26_FailedSetupKeepsConfig ==
    SetupFailed =>
      /\ last.cause = "InitError"
      /\ ~initialized
      /\ kwargs = pre.s.kwargs

\* C27: a store whose initialized flag is set holds both connection handles
\* and its index exists, so the accessors' assertions hold; and the
\* asynchronous search loop, which reads the asynchronous handle without the
\* accessor, finds it set.
C27_ReadyHasHandles ==
    /\ initialized => (client /\ async_client /\ indexExists)
    /\ (pc = "search" /\ last.mode = "async") => (initialized /\ async_client)
    /\ (pc = "done" /\ Range(calls) \cap DataCalls # {}) =>
         (initialized /\ client /\ async_client)

\* C27 witness: count_documents_async, called on a fresh store whose index
\* did not exist, created the index, set the flag and sent its request
\* through the asynchronous handle.
C27_Witness ==
    /\ pc = "done" /\ last.op = "count_documents" /\ last.mode = "async"
    /\ ~pre.s.initialized /\ ~pre.s.async_client /\ ~pre.s.indexExists
    /\ calls = <<"info", "exists", "create", "count">>
    /\ initialized /\ client /\ async_client /\ indexExists

====
